---- MODULE Spec2Model ----
(***************************************************************************)
(* Model of src/main.py: the wordlist generator (leet_variations,          *)
(* append_recent_years, generate_wordlist) and the password scorer         *)
(* (analyze_password).                                                     *)
(*                                                                         *)
(* A Python str is modelled as a sequence of Unicode code points, so that  *)
(* str comparison, lower(), upper(), strip() and str(int) are computed on  *)
(* characters as Python computes them.                                     *)
(***************************************************************************)
EXTENDS Integers, Sequences, FiniteSets, TLC

VARIABLES
    pc,                       \* position of the running call
    tokens,                   \* generate_wordlist: argument tokens
    max_words,                \* generate_wordlist: argument max_words
    append_years_flag,        \* generate_wordlist: argument append_years_flag
    include_common_suffixes,  \* generate_wordlist: argument include_common_suffixes
    year,                     \* datetime.now().year, as read by the call
    clean_tokens,             \* generate_wordlist: local clean_tokens
    idx,                      \* generate_wordlist: index of the token the first loop is at
    results,                  \* generate_wordlist: local results
    pairs,                    \* the pairs itertools.permutations(clean_tokens, 2) yielded
    snapshot,                 \* generate_wordlist: local snapshot
    built,                    \* history: results as it stood when the size cap was reached
    out,                      \* generate_wordlist: the returned list
    arg,                      \* arguments of a call of one of the other functions
    ret                       \* what that call returned

vars == <<pc, tokens, max_words, append_years_flag, include_common_suffixes, year,
          clean_tokens, idx, results, pairs, snapshot, built, out, arg, ret>>

genvars == <<tokens, max_words, append_years_flag, include_common_suffixes, year,
             clean_tokens, idx, results, pairs, snapshot, built, out>>

(***************************************************************************)
(* Characters (code points).                                               *)
(***************************************************************************)
Ch == [sp |-> 32, bang |-> 33, dollar |-> 36, d0 |-> 48, d1 |-> 49, d2 |-> 50,
       d3 |-> 51, d4 |-> 52, d5 |-> 53, d7 |-> 55, d8 |-> 56, at |-> 64,
       A |-> 65, B |-> 66, T |-> 84, us |-> 95,
       a |-> 97, b |-> 98, c |-> 99, d |-> 100, e |-> 101, g |-> 103, i |-> 105,
       l |-> 108, o |-> 111, s |-> 115, t |-> 116, x |-> 120, bar |-> 124,
       IDot |-> 304,      \* U+0130 LATIN CAPITAL LETTER I WITH DOT ABOVE
       CombDot |-> 775]   \* U+0307 COMBINING DOT ABOVE

\* The value of an absent result (Python's None).
None == "None"

\* seq1 + seq2 + ... : concatenation of a sequence of strings.
RECURSIVE Join(_)
Join(ss) == IF ss = <<>> THEN <<>> ELSE Head(ss) \o Join(Tail(ss))

\* str.isspace of one character (ASCII whitespace).
IsSpace(c) == c \in {9, 10, 11, 12, 13, 28, 29, 30, 31, 32}

\* str.lower of one character: a string, since U+0130 lowercases to two
\* code points ("i" followed by U+0307).
LowerChar(c) ==
    IF c \in 65..90 THEN <<c + 32>>
    ELSE IF c = Ch.IDot THEN <<Ch.i, Ch.CombDot>>
    ELSE <<c>>

\* str.upper of one character.
UpperChar(c) == IF c \in 97..122 THEN <<c - 32>> ELSE <<c>>

\* str.lower
Lower(s) == Join([k \in 1..Len(s) |-> LowerChar(s[k])])

\* str.upper
Upper(s) == Join([k \in 1..Len(s) |-> UpperChar(s[k])])

\* str.capitalize: first character uppercased, the rest lowercased.
Capitalize(s) == IF s = <<>> THEN <<>> ELSE UpperChar(Head(s)) \o Lower(Tail(s))

\* str.strip: leading and trailing whitespace removed.
Strip(s) ==
    LET keep == {k \in 1..Len(s) : ~IsSpace(s[k])}
    IN  IF keep = {} THEN <<>>
        ELSE LET lo == CHOOSE k \in keep : \A m \in keep : k <= m
                 hi == CHOOSE k \in keep : \A m \in keep : m <= k
             IN  SubSeq(s, lo, hi)

\* str(n) for an integer n >= 0: its decimal digits.
RECURSIVE Str(_)
Str(n) == IF n < 10 THEN <<Ch.d0 + n>> ELSE Str(n \div 10) \o <<Ch.d0 + (n % 10)>>

\* Python's str comparison s < t: lexicographic by code point.
RECURSIVE Less(_, _)
Less(s, t) ==
    IF t = <<>> THEN FALSE
    ELSE IF s = <<>> THEN TRUE
    ELSE IF Head(s) # Head(t) THEN Head(s) < Head(t)
    ELSE Less(Tail(s), Tail(t))

(***************************************************************************)
(* leet_variations                                                         *)
(***************************************************************************)
LEET_MAP ==
    (Ch.a :> <<Ch.at, Ch.d4>>) @@ (Ch.b :> <<Ch.d8>>) @@ (Ch.e :> <<Ch.d3>>) @@
    (Ch.i :> <<Ch.d1, Ch.bang>>) @@ (Ch.l :> <<Ch.d1, Ch.bar>>) @@
    (Ch.o :> <<Ch.d0>>) @@ (Ch.s :> <<Ch.dollar, Ch.d5>>) @@ (Ch.t :> <<Ch.d7>>)

\* LEET_MAP.get(ch, []) for a string ch, as the set of the glyphs listed.
LeetSubs(ch) ==
    IF Len(ch) = 1 /\ ch[1] \in DOMAIN LEET_MAP
    THEN {LEET_MAP[ch[1]][k] : k \in 1..Len(LEET_MAP[ch[1]])}
    ELSE {}

\* The inner loops of leet_variations for one combination comb of positions
\* (1-based here), taken in ascending order: every sequence of seqs gets each
\* glyph of its character at pos; a position with no glyph leaves seqs as is.
RECURSIVE SubstituteAll(_, _)
SubstituteAll(seqs, comb) ==
    IF comb = {} THEN seqs
    ELSE LET pos == CHOOSE p \in comb : \A q \in comb : p <= q
             new_seqs == UNION {{[seq EXCEPT ![pos] = g] :
                                   g \in LeetSubs(LowerChar(seq[pos]))} : seq \in seqs}
         IN  SubstituteAll(IF new_seqs # {} THEN new_seqs ELSE seqs, comb \ {pos})

\* leet_variations(token, max_subs): [raised |-> TRUE] when seq[pos] raises
\* IndexError (pos is an index into lower, seq has the length of token), else
\* the set returned.
leet_variations(token, max_subs) ==
    LET tok == Strip(token)
        lower == Lower(tok)
        positions == {k \in 1..Len(lower) : lower[k] \in DOMAIN LEET_MAP}
        n == Cardinality(positions)
        top == IF max_subs < n THEN max_subs ELSE n
        combs == {comb \in SUBSET positions :
                    Cardinality(comb) >= 1 /\ Cardinality(comb) <= top}
    IN  IF tok = <<>> THEN [raised |-> FALSE, value |-> {}]
        ELSE IF \E comb \in combs : \E p \in comb : p > Len(tok)
        THEN [raised |-> TRUE, value |-> {}]
        ELSE [raised |-> FALSE,
              value |-> {tok} \cup UNION {SubstituteAll({tok}, comb) : comb \in combs}]

(***************************************************************************)
(* append_recent_years                                                     *)
(***************************************************************************)
\* Mutant: the window starts one year early (range(current - years_back, ...)).
append_recent_years_EarlyStart(token, years_back, current) ==
    LET tok == Strip(token)
        years == {Str(y) : y \in (current - years_back)..current}
    IN  IF tok = <<>> THEN {} ELSE {tok \o y : y \in years}

\* append_recent_years(token, years_back) when datetime.now().year is current.
append_recent_years(token, years_back, current) ==
    LET tok == Strip(token)
        years == {Str(y) : y \in (current - years_back + 1)..current}
    IN  IF tok = <<>> THEN {} ELSE {tok \o y : y \in years}

(***************************************************************************)
(* generate_wordlist                                                       *)
(***************************************************************************)
\* Default of leet_variations' max_subs.
DEFAULT_MAX_SUBS == 2
\* Default of append_recent_years' years_back.
DEFAULT_YEARS_BACK == 10
\* Default of generate_wordlist's max_words.
DEFAULT_MAX_WORDS == 50000

\* The list common_suffixes: "123", "!", "@", "2020", "2021", "2022".
common_suffixes ==
    << <<Ch.d1, Ch.d2, Ch.d3>>, <<Ch.bang>>, <<Ch.at>>,
       <<Ch.d2, Ch.d0, Ch.d2, Ch.d0>>, <<Ch.d2, Ch.d0, Ch.d2, Ch.d1>>,
       <<Ch.d2, Ch.d0, Ch.d2, Ch.d2>> >>

Range(f) == {f[k] : k \in DOMAIN f}

\* sorted(S) for a set S of strings: the strings in ascending order of Python's
\* str comparison. Computed by leading character: the empty string first, then,
\* for each leading character in ascending order, the strings that start with
\* it in the order of their remainders.
RECURSIVE sorted(_)
RECURSIVE SortedByHead(_, _)
sorted(S) ==
    IF S = {} THEN <<>>
    ELSE (IF <<>> \in S THEN << <<>> >> ELSE <<>>)
         \o SortedByHead(S \ {<<>>}, {Head(s) : s \in S \ {<<>>}})

\* Mutant: the leading characters are taken in descending order.
SortedByHead_Descending(S, heads) ==
    IF heads = {} THEN <<>>
    ELSE LET h == CHOOSE x \in heads : \A y \in heads : x >= y
             rest == sorted({Tail(s) : s \in {u \in S : Head(u) = h}})
         IN  [k \in 1..Len(rest) |-> <<h>> \o rest[k]] \o SortedByHead(S, heads \ {h})

SortedByHead(S, heads) ==
    IF heads = {} THEN <<>>
    ELSE LET h == CHOOSE x \in heads : \A y \in heads : x <= y
             rest == sorted({Tail(s) : s \in {u \in S : Head(u) = h}})
         IN  [k \in 1..Len(rest) |-> <<h>> \o rest[k]] \o SortedByHead(S, heads \ {h})

\* seq[:n] for n >= 0.
Take(seq, n) == SubSeq(seq, 1, IF n < Len(seq) THEN n ELSE Len(seq))

\* clean_tokens = [t.strip() for t in tokens if t and t.strip()]
CleanTokens(toks) ==
    SelectSeq([k \in 1..Len(toks) |-> Strip(toks[k])], LAMBDA t : t # <<>>)

\* Mutant: the capitalized form is not added.
TokenExpansion_NoCapitalize(t, flag, current) ==
    LET leet == leet_variations(t, DEFAULT_MAX_SUBS)
        yrs == IF flag THEN append_recent_years(t, DEFAULT_YEARS_BACK, current) ELSE {}
    IN  IF leet.raised THEN [raised |-> TRUE, value |-> {}]
        ELSE [raised |-> FALSE,
              value |-> {t, Lower(t), Upper(t)}
                        \cup leet.value \cup {Lower(v) : v \in leet.value}
                        \cup yrs \cup {Lower(v) : v \in yrs}]

\* One round of the first loop, for token t: [raised |-> TRUE] when
\* leet_variations raises, else the strings the round adds to results.
TokenExpansion(t, flag, current) ==
    LET leet == leet_variations(t, DEFAULT_MAX_SUBS)
        yrs == IF flag THEN append_recent_years(t, DEFAULT_YEARS_BACK, current) ELSE {}
    IN  IF leet.raised THEN [raised |-> TRUE, value |-> {}]
        ELSE [raised |-> FALSE,
              value |-> {t, Lower(t), Upper(t), Capitalize(t)}
                        \cup leet.value \cup {Lower(v) : v \in leet.value}
                        \cup yrs \cup {Lower(v) : v \in yrs}]

\* Mutant: itertools.combinations(clean, 2), each pair in one direction only.
Permutations2_OneDirection(clean) ==
    LET n == Len(clean)
    IN  Join([i \in 1..n |-> [k \in 1..(n - i) |-> <<clean[i], clean[i + k]>>]])

\* itertools.permutations(clean, 2): the pairs (clean[i], clean[j]) of distinct
\* positions i, j, in the order the iterator yields them.
Permutations2(clean) ==
    LET n == Len(clean)
    IN  Join([i \in 1..n |->
                [k \in 1..(n - 1) |-> <<clean[i], clean[IF k < i THEN k ELSE k + 1]>>]])

\* What the pairwise loop adds for the pairs ps.
PairwiseAdditions(ps) ==
    UNION {{ps[k][1] \o ps[k][2], ps[k][1] \o <<Ch.us>> \o ps[k][2]} : k \in 1..Len(ps)}

\* Mutant: the loop runs over the growing set, so the strings it added get
\* suffixes too.
SuffixAdditions_LiveSet(snap) ==
    LET once == {base \o common_suffixes[k] : base \in snap, k \in 1..Len(common_suffixes)}
    IN  once \cup {base \o common_suffixes[k] : base \in once, k \in 1..Len(common_suffixes)}

\* What the suffix loop adds when it runs over the list snap.
SuffixAdditions(snap) ==
    {base \o common_suffixes[k] : base \in snap, k \in 1..Len(common_suffixes)}

\* Mutant: the slice keeps one element too many ([:max_words + 1]).
SizeCap_OneTooMany(res, cap) ==
    IF Cardinality(res) > cap THEN Range(Take(sorted(res), cap + 1)) ELSE res

\* Mutant: the slice keeps the last max_words elements instead of the first.
SizeCap_KeepLast(res, cap) ==
    IF Cardinality(res) > cap
    THEN Range(SubSeq(sorted(res), Cardinality(res) - cap + 1, Cardinality(res)))
    ELSE res

\* The size cap: results = set(sorted(results)[:max_words]) when
\* len(results) > max_words.
SizeCap(res, cap) ==
    IF Cardinality(res) > cap THEN Range(Take(sorted(res), cap)) ELSE res

\* The first loop over the tokens clean[from..], starting from the set res.
RECURSIVE ExpandAll(_, _, _, _, _)
ExpandAll(clean, from, res, flag, current) ==
    IF from > Len(clean) THEN [raised |-> FALSE, value |-> res]
    ELSE LET e == TokenExpansion(clean[from], flag, current)
         IN  IF e.raised THEN [raised |-> TRUE, value |-> {}]
             ELSE ExpandAll(clean, from + 1, res \cup e.value, flag, current)

\* generate_wordlist as a function of its arguments and the current year:
\* [raised |-> TRUE] or the list returned.
generate_wordlist(toks, cap, flag, suffixes, current) ==
    LET clean == CleanTokens(toks)
        r1 == ExpandAll(clean, 1, {}, flag, current)
        r2 == r1.value \cup PairwiseAdditions(Permutations2(clean))
        r3 == IF suffixes THEN r2 \cup SuffixAdditions(r2) ELSE r2
    IN  IF r1.raised THEN [raised |-> TRUE, value |-> <<>>]
        ELSE [raised |-> FALSE, value |-> sorted(SizeCap(r3, cap))]

(***************************************************************************)
(* analyze_password                                                        *)
(***************************************************************************)
\* c.islower(), c.isupper(), c.isdigit(), c.isalnum() of one character.
IsLower(c) == c \in 97..122
IsUpper(c) == c \in 65..90 \/ c = Ch.IDot
IsDigit(c) == c \in 48..57
IsAlnum(c) == IsLower(c) \/ IsUpper(c) \/ IsDigit(c)

\* int.bit_length
RECURSIVE bit_length(_)
bit_length(n) == IF n = 0 THEN 0 ELSE 1 + bit_length(n \div 2)

\* The character pool of the fallback estimate.
Pool(password) ==
    (IF \E k \in 1..Len(password) : IsLower(password[k]) THEN 26 ELSE 0)
    + (IF \E k \in 1..Len(password) : IsUpper(password[k]) THEN 26 ELSE 0)
    + (IF \E k \in 1..Len(password) : IsDigit(password[k]) THEN 10 ELSE 0)
    + (IF \E k \in 1..Len(password) : ~IsAlnum(password[k]) THEN 32 ELSE 0)

\* Mutant: the first threshold is inclusive (entropy <= 28).
FallbackScore_Inclusive(entropy) ==
    IF entropy <= 28 THEN 0
    ELSE IF entropy < 36 THEN 1
    ELSE IF entropy < 60 THEN 2
    ELSE IF entropy < 90 THEN 3
    ELSE 4

\* The score bucket of the fallback estimate.
FallbackScore(entropy) ==
    IF entropy < 28 THEN 0
    ELSE IF entropy < 36 THEN 1
    ELSE IF entropy < 60 THEN 2
    ELSE IF entropy < 90 THEN 3
    ELSE 4

\* The fallback estimate.
Fallback(password) ==
    LET pool == Pool(password)
        bits_per_char == IF pool # 0 THEN bit_length(pool) ELSE 0
        entropy == Len(password) * bits_per_char
    IN  [raised |-> FALSE, score |-> FallbackScore(entropy), entropy |-> entropy,
         feedback |-> "Fallback estimator used."]

\* What zxcvbn(password) may return: the library is not part of the source, so
\* its result is any score 0..4 (the result carries no entropy figure here).
ZxcvbnResults ==
    {[raised |-> FALSE, score |-> sc, entropy |-> None, feedback |-> "zxcvbn"] : sc \in 0..4}

\* analyze_password(password), with the module-level name zxcvbn being None
\* ("absent"), a scorer that raises on this call ("raises") or one that returns
\* ("returns"): the set of the results the call may give.
analyze_password(password, zxcvbn) ==
    IF password = <<>>
    THEN {[raised |-> FALSE, score |-> None, entropy |-> 0,
           feedback |-> "No password provided."]}
    ELSE IF zxcvbn = "returns" THEN ZxcvbnResults
    ELSE {Fallback(password)}

(***************************************************************************)
(* Bounds and inputs                                                       *)
(***************************************************************************)
\* generate_wordlist: longest token list, and the largest small max_words.
MaxTokens == 2
MaxWords == 3
\* leet_variations: longest token and largest max_subs.
MaxLeetLen == 3
MaxSubs == 3
\* append_recent_years: largest years_back.
MaxYearsBack == 4
\* analyze_password: longest run of one repeated character in a password.
MaxPad == 18

\* The tokens of generate_wordlist: "", " aB ", "t", "ta", and U+0130 followed
\* by "a".
RawTokens ==
    {<<>>, <<Ch.sp, Ch.a, Ch.B, Ch.sp>>, <<Ch.t>>, <<Ch.t, Ch.a>>, <<Ch.IDot, Ch.a>>}

TokenLists == UNION {[1..n -> RawTokens] : n \in 0..MaxTokens}

MaxWordsValues == (0..MaxWords) \cup {DEFAULT_MAX_WORDS}

CurrentYears == {2025, 2026}

\* The tokens of leet_variations: every string of " ", "a", "T", "x", U+0130
\* up to MaxLeetLen characters, and "cat".
LeetAlphabet == {Ch.sp, Ch.a, Ch.T, Ch.x, Ch.IDot}

LeetTokens ==
    UNION {[1..n -> LeetAlphabet] : n \in 0..MaxLeetLen} \cup {<<Ch.c, Ch.a, Ch.t>>}

\* The tokens of append_recent_years: "", " ", "dog", " a", "T ".
YearTokens ==
    {<<>>, <<Ch.sp>>, <<Ch.d, Ch.o, Ch.g>>, <<Ch.sp, Ch.a>>, <<Ch.T, Ch.sp>>}

YearsNow == {1001, 2011, 2025, 2026}

\* The passwords: a run of "a", of "1" or of U+0307, followed by one of
\* "", "a", "A", "1", "!", "aA", "a1", "A!", "aA1", "aA1!".
RECURSIVE Repeat(_, _)
Repeat(c, n) == IF n = 0 THEN <<>> ELSE <<c>> \o Repeat(c, n - 1)

PasswordTails ==
    {<<>>, <<Ch.a>>, <<Ch.A>>, <<Ch.d1>>, <<Ch.bang>>, <<Ch.a, Ch.A>>, <<Ch.a, Ch.d1>>,
     <<Ch.A, Ch.bang>>, <<Ch.a, Ch.A, Ch.d1>>, <<Ch.a, Ch.A, Ch.d1, Ch.bang>>}

Passwords ==
    {Repeat(c, n) \o tl : c \in {Ch.a, Ch.d1, Ch.CombDot}, n \in 0..MaxPad, tl \in PasswordTails}

(***************************************************************************)
(* generate_wordlist, step by step                                         *)
(***************************************************************************)
Idle ==
    /\ tokens = <<>> /\ max_words = 0 /\ append_years_flag = FALSE
    /\ include_common_suffixes = FALSE /\ year = 0
    /\ clean_tokens = <<>> /\ idx = 0 /\ results = {} /\ pairs = <<>>
    /\ snapshot = {} /\ built = {} /\ out = None

Init ==
    /\ pc = "start"
    /\ tokens \in TokenLists
    /\ max_words \in MaxWordsValues
    /\ append_years_flag \in BOOLEAN
    /\ include_common_suffixes \in BOOLEAN
    /\ year \in CurrentYears
    /\ clean_tokens = <<>> /\ idx = 0 /\ results = {} /\ pairs = <<>>
    /\ snapshot = {} /\ built = {} /\ out = None
    /\ arg = None /\ ret = None

\* Lines 161-162.
Clean ==
    /\ pc = "start"
    /\ clean_tokens' = CleanTokens(tokens)
    /\ results' = {}
    /\ idx' = 1
    /\ pc' = "tokens"
    /\ UNCHANGED <<tokens, max_words, append_years_flag, include_common_suffixes, year,
                   pairs, snapshot, built, out, arg, ret>>

\* One round of the loop of lines 165-180.
ExpandToken ==
    /\ pc = "tokens"
    /\ idx <= Len(clean_tokens)
    /\ LET e == TokenExpansion(clean_tokens[idx], append_years_flag, year)
       IN  /\ ~e.raised
           /\ results' = results \cup e.value
    /\ idx' = idx + 1
    /\ UNCHANGED <<pc, tokens, max_words, append_years_flag, include_common_suffixes, year,
                   clean_tokens, pairs, snapshot, built, out, arg, ret>>

\* A round of that loop in which leet_variations raises: the call ends there.
ExpandRaises ==
    /\ pc = "tokens"
    /\ idx <= Len(clean_tokens)
    /\ TokenExpansion(clean_tokens[idx], append_years_flag, year).raised
    /\ pc' = "raised"
    /\ UNCHANGED <<tokens, max_words, append_years_flag, include_common_suffixes, year,
                   clean_tokens, idx, results, pairs, snapshot, built, out, arg, ret>>

\* The loop of lines 183-185.
Pairwise ==
    /\ pc = "tokens"
    /\ idx > Len(clean_tokens)
    /\ pairs' = Permutations2(clean_tokens)
    /\ results' = results \cup PairwiseAdditions(pairs')
    /\ pc' = "suffix"
    /\ UNCHANGED <<tokens, max_words, append_years_flag, include_common_suffixes, year,
                   clean_tokens, idx, snapshot, built, out, arg, ret>>

\* Lines 188-193.
Suffix ==
    /\ pc = "suffix"
    /\ IF include_common_suffixes
       THEN /\ snapshot' = results
            /\ results' = results \cup SuffixAdditions(snapshot')
       ELSE UNCHANGED <<snapshot, results>>
    /\ pc' = "cap"
    /\ UNCHANGED <<tokens, max_words, append_years_flag, include_common_suffixes, year,
                   clean_tokens, idx, pairs, built, out, arg, ret>>

\* Lines 196-197.
Cap ==
    /\ pc = "cap"
    /\ built' = results
    /\ results' = SizeCap(results, max_words)
    /\ pc' = "return"
    /\ UNCHANGED <<tokens, max_words, append_years_flag, include_common_suffixes, year,
                   clean_tokens, idx, pairs, snapshot, out, arg, ret>>

\* Line 199.
Return ==
    /\ pc = "return"
    /\ out' = sorted(results)
    /\ pc' = "done"
    /\ UNCHANGED <<tokens, max_words, append_years_flag, include_common_suffixes, year,
                   clean_tokens, idx, results, pairs, snapshot, built, arg, ret>>

Next == Clean \/ ExpandToken \/ ExpandRaises \/ Pairwise \/ Suffix \/ Cap \/ Return

Spec == Init /\ [][Next]_vars

(***************************************************************************)
(* Calls of leet_variations, append_recent_years and analyze_password      *)
(***************************************************************************)
InitLeet ==
    /\ pc = "call"
    /\ arg \in [token : LeetTokens, max_subs : 0..MaxSubs]
    /\ ret = None
    /\ Idle

CallLeet ==
    /\ pc = "call"
    /\ ret' = leet_variations(arg.token, arg.max_subs)
    /\ pc' = "returned"
    /\ UNCHANGED <<arg, genvars>>

SpecLeet == InitLeet /\ [][CallLeet]_vars

InitYears ==
    /\ pc = "call"
    /\ arg \in [token : YearTokens, years_back : (-1)..MaxYearsBack, current : YearsNow]
    /\ ret = None
    /\ Idle

CallYears ==
    /\ pc = "call"
    /\ ret' = append_recent_years(arg.token, arg.years_back, arg.current)
    /\ pc' = "returned"
    /\ UNCHANGED <<arg, genvars>>

SpecYears == InitYears /\ [][CallYears]_vars

InitAnalyze ==
    /\ pc = "call"
    /\ arg \in [password : Passwords, zxcvbn : {"absent", "raises", "returns"}]
    /\ ret = None
    /\ Idle

CallAnalyze ==
    /\ pc = "call"
    /\ ret' \in analyze_password(arg.password, arg.zxcvbn)
    /\ pc' = "returned"
    /\ UNCHANGED <<arg, genvars>>

SpecAnalyze == InitAnalyze /\ [][CallAnalyze]_vars

(***************************************************************************)
(* Properties                                                              *)
(***************************************************************************)
Min(a, b) == IF a < b THEN a ELSE b

\* s is a strictly ascending sequence of strings.
StrictlyAscending(s) == \A k \in 1..(Len(s) - 1) : Less(s[k], s[k + 1])

\* The case forms of a token: itself, lowercase, uppercase, capitalized.
CaseForms(t) == {t, Lower(t), Upper(t), Capitalize(t)}

\* The rearrangements of a list.
Perms(seq) ==
    {[k \in 1..Len(seq) |-> seq[f[k]]] :
        f \in {g \in [1..Len(seq) -> 1..Len(seq)] :
                 \A a, b \in 1..Len(seq) : a # b => g[a] # g[b]}}

\* The suffix catalog as the documentation lists it:
\* "123", "!", "@", "2020", "2021", "2022".
Catalog ==
    {<<49, 50, 51>>, <<33>>, <<64>>, <<50, 48, 50, 48>>, <<50, 48, 50, 49>>,
     <<50, 48, 50, 50>>}

\* C1: the list generate_wordlist returns has at most max_words elements, for
\* every max_words >= 0, token list and flag combination.
C1_LengthAtMostMaxWords == pc = "done" => Len(out) <= max_words

C1_Witness ==
    /\ pc = "done" /\ max_words = 0 /\ built # {} /\ out = <<>>

\* C2: the list generate_wordlist returns is strictly ascending in Python's
\* string order (so it holds no string twice), capped or not.
C2_StrictlyAscending == pc = "done" => StrictlyAscending(out)

C2_Witness ==
    /\ pc = "done" /\ Len(out) >= 3
    /\ \E k \in 1..(Len(out) - 1) : Len(out[k]) > Len(out[k + 1])

\* C3, as claimed: from the end of a token's round of the first loop up to and
\* including the returned list, results (and the list) holds the token, its
\* lowercase, its uppercase and its capitalized form, for every max_words.
C3_FormsKeptToTheEnd ==
    /\ pc \in {"tokens", "suffix", "cap", "raised"} =>
          \A k \in 1..Len(clean_tokens) :
              k < idx => CaseForms(clean_tokens[k]) \subseteq results
    /\ pc \in {"return", "done"} =>
          \A k \in 1..Len(clean_tokens) : CaseForms(clean_tokens[k]) \subseteq results
    /\ pc = "done" =>
          \A k \in 1..Len(clean_tokens) : CaseForms(clean_tokens[k]) \subseteq Range(out)

\* C3, amended: the four forms stay in results from the end of the token's round
\* up to the size cap; after the cap, and in the returned list, they are present
\* whenever the number of candidates built did not exceed max_words.
C3_FormsKeptUntilCap ==
    /\ pc \in {"tokens", "suffix", "cap", "raised"} =>
          \A k \in 1..Len(clean_tokens) :
              k < idx => CaseForms(clean_tokens[k]) \subseteq results
    /\ pc \in {"return", "done"} /\ Cardinality(built) <= max_words =>
          \A k \in 1..Len(clean_tokens) : CaseForms(clean_tokens[k]) \subseteq results
    /\ pc = "done" /\ Cardinality(built) <= max_words =>
          \A k \in 1..Len(clean_tokens) : CaseForms(clean_tokens[k]) \subseteq Range(out)

C3_Witness ==
    /\ pc = "done" /\ Cardinality(built) <= max_words
    /\ \E k \in 1..Len(clean_tokens) :
          /\ Cardinality(CaseForms(clean_tokens[k])) = 4
          /\ CaseForms(clean_tokens[k]) \subseteq Range(out)

\* C4: the pairwise step adds a+b and a+"_"+b for every ordered pair of tokens
\* a # b, in both directions, and takes no pair of a token with itself, also
\* when the token list repeats a token.
C4_PairsWithoutSelfPairs ==
    pc = "suffix" =>
        /\ \A i, j \in 1..Len(clean_tokens) :
              clean_tokens[i] # clean_tokens[j] =>
                  /\ clean_tokens[i] \o clean_tokens[j] \in results
                  /\ clean_tokens[i] \o <<95>> \o clean_tokens[j] \in results
        /\ \A k \in 1..Len(pairs) : pairs[k][1] # pairs[k][2]

\* The reference set of C5: the trimmed token, and every string that replaces
\* the characters at a set P of 1..min(max_subs, number of mappable positions)
\* mappable positions by one of their glyphs each.
LeetReference(token, max_subs) ==
    LET tok == Strip(token)
        mappable == {k \in 1..Len(tok) : LeetSubs(LowerChar(tok[k])) # {}}
        top == Min(max_subs, Cardinality(mappable))
    IN  IF tok = <<>> THEN {}
        ELSE {tok} \cup
             UNION {{[k \in 1..Len(tok) |-> IF k \in P THEN g[k] ELSE tok[k]] :
                        g \in {h \in [P -> {33, 36, 48, 49, 51, 52, 53, 55, 56, 64, 124}] :
                                 \A k \in P : h[k] \in LeetSubs(LowerChar(tok[k]))}} :
                    P \in {Q \in SUBSET mappable :
                             Cardinality(Q) >= 1 /\ Cardinality(Q) <= top}}

\* C5: leet_variations(token, max_subs) returns exactly the reference set, for
\* every token and max_subs; every variant has the token's length; and
\* leet_variations("cat", 2) is {cat, c4t, c@t, ca7, c47, c@7}.
C5_LeetEqualsReference ==
    pc = "returned" =>
        /\ ~ret.raised
        /\ ret.value = LeetReference(arg.token, arg.max_subs)
        /\ \A v \in ret.value : Len(v) = Len(Strip(arg.token))
        /\ arg.token = <<99, 97, 116>> /\ arg.max_subs = 2 =>
              ret.value = {<<99, 97, 116>>, <<99, 52, 116>>, <<99, 64, 116>>,
                           <<99, 97, 55>>, <<99, 52, 55>>, <<99, 64, 55>>}

\* C6: with include_common_suffixes, the suffix step turns the candidate set B
\* into exactly B united with {b + s : b in B, s in the catalog}: suffixes go
\* only on candidates present before the step began.
C6_SuffixOnSnapshot ==
    [][pc = "suffix" /\ include_common_suffixes =>
          results' = results \cup {b \o sfx : b \in results, sfx \in Catalog}]_vars

C6_Witness ==
    /\ pc = "cap" /\ include_common_suffixes
    /\ snapshot # {} /\ results # snapshot
    /\ \E b \in snapshot : \E sfx \in Catalog : b \o sfx \o sfx \notin results

\* C7: with S the candidates built before the cap, the returned list is S in
\* ascending order when |S| <= max_words, and the first max_words elements of
\* that order otherwise; the list for a smaller cap is a prefix of it.
C7_CapKeepsSmallest ==
    pc = "done" =>
        /\ Len(out) = Min(Cardinality(built), max_words)
        /\ StrictlyAscending(out)
        /\ Range(out) \subseteq built
        /\ \A x \in built \ Range(out) : \A k \in 1..Len(out) : Less(out[k], x)
        /\ \A m \in MaxWordsValues :
              m <= max_words =>
                  LET small == generate_wordlist(tokens, m, append_years_flag,
                                                 include_common_suffixes, year)
                  IN  ~small.raised /\ small.value = SubSeq(out, 1, Len(small.value))

C7_Witness ==
    /\ pc = "done" /\ max_words = 2 /\ Len(out) = 2
    /\ Cardinality(built) > 2
    /\ \E x \in built : Less(out[2], x)

\* s is the decimal numeral of n: digits only, no leading zero, value n.
RECURSIVE DigitsValue(_)
DigitsValue(ds) ==
    IF ds = <<>> THEN 0 ELSE 10 * DigitsValue(SubSeq(ds, 1, Len(ds) - 1)) + (ds[Len(ds)] - 48)

IsNumeralOf(ds, n) ==
    /\ Len(ds) >= 1
    /\ \A k \in 1..Len(ds) : ds[k] \in 48..57
    /\ Len(ds) > 1 => ds[1] # 48
    /\ DigitsValue(ds) = n

\* C8: append_recent_years(token, k) in year Y is exactly
\* {token + str(y) : Y-k+1 <= y <= Y} for the trimmed token: k strings for
\* k >= 1, with token+Y and without token+(Y-k); the empty set for an empty or
\* whitespace-only token; ("dog", 3) in 2025 gives {dog2023, dog2024, dog2025}.
C8_YearsWindow ==
    pc = "returned" =>
        LET tok == Strip(arg.token)
            window == (arg.current - arg.years_back + 1)..arg.current
            YearOf(s) == {y \in window : IsNumeralOf(SubSeq(s, Len(tok) + 1, Len(s)), y)}
        IN  IF tok = <<>> THEN ret = {}
            ELSE /\ \A s \in ret : SubSeq(s, 1, Len(tok)) = tok /\ YearOf(s) # {}
                 /\ \A y \in window : \E s \in ret : y \in YearOf(s)
                 /\ arg.years_back >= 1 =>
                       /\ Cardinality(ret) = arg.years_back
                       /\ \E s \in ret : arg.current \in YearOf(s)
                       /\ \A s \in ret :
                             ~IsNumeralOf(SubSeq(s, Len(tok) + 1, Len(s)),
                                          arg.current - arg.years_back)
                 /\ arg.years_back < 1 => ret = {}
                 /\ arg.token = <<100, 111, 103>> /\ arg.years_back = 3 /\ arg.current = 2025 =>
                       ret = {<<100, 111, 103, 50, 48, 50, 51>>,
                              <<100, 111, 103, 50, 48, 50, 52>>,
                              <<100, 111, 103, 50, 48, 50, 53>>}

C8_Witness ==
    /\ pc = "returned"
    /\ arg.token = <<100, 111, 103>> /\ arg.years_back = 3 /\ arg.current = 2025
    /\ Cardinality(ret) = 3

\* C9: with zxcvbn absent or raising, analyze_password on a non-empty password
\* raises nothing and returns the fallback: entropy = len * bit_length(pool),
\* pool = 26 (any lowercase) + 26 (any uppercase) + 10 (any digit) + 32 (any
\* non-alphanumeric); score 0 below 28, 1 below 36, 2 below 60, 3 below 90,
\* else 4. An empty password gives score None and entropy 0.
C9_FallbackResult ==
    pc = "returned" =>
        LET pw == arg.password
            has(P(_)) == \E k \in 1..Len(pw) : P(pw[k])
            pool == (IF has(IsLower) THEN 26 ELSE 0) + (IF has(IsUpper) THEN 26 ELSE 0)
                    + (IF has(IsDigit) THEN 10 ELSE 0)
                    + (IF has(LAMBDA ch : ~IsAlnum(ch)) THEN 32 ELSE 0)
            bits == CHOOSE w \in 0..7 : IF pool = 0 THEN w = 0
                                        ELSE 2 ^ w > pool /\ 2 ^ w <= 2 * pool
        IN  IF pw = <<>> THEN ret.score = None /\ ret.entropy = 0 /\ ~ret.raised
            ELSE arg.zxcvbn \in {"absent", "raises"} =>
                    /\ ~ret.raised
                    /\ ret.entropy = Len(pw) * bits
                    /\ ret.score \in 0..4
                    /\ ret.score = 0 <=> ret.entropy < 28
                    /\ ret.score = 1 <=> ret.entropy >= 28 /\ ret.entropy < 36
                    /\ ret.score = 2 <=> ret.entropy >= 36 /\ ret.entropy < 60
                    /\ ret.score = 3 <=> ret.entropy >= 60 /\ ret.entropy < 90
                    /\ ret.score = 4 <=> ret.entropy >= 90

C9_Witness ==
    /\ pc = "returned" /\ arg.zxcvbn = "raises"
    /\ ret.entropy = 28 /\ ret.score = 1

\* C10: generate_wordlist does not depend on the order of the tokens: every
\* rearrangement of the token list gives the same list (or raises as well), for
\* the same max_words, flags and year.
C10_OrderIndependent ==
    /\ pc = "done" =>
          \A p \in Perms(tokens) :
              generate_wordlist(p, max_words, append_years_flag,
                                include_common_suffixes, year)
                  = [raised |-> FALSE, value |-> out]
    /\ pc = "raised" =>
          \A p \in Perms(tokens) :
              generate_wordlist(p, max_words, append_years_flag,
                                include_common_suffixes, year).raised

C10_Witness ==
    /\ pc = "done" /\ Len(clean_tokens) = 2
    /\ clean_tokens[1] # clean_tokens[2]
    /\ clean_tokens[1] \o clean_tokens[2] \in Range(out)
    /\ clean_tokens[2] \o clean_tokens[1] \in Range(out)

====
